---- MODULE Spec2Model ----
(***************************************************************************)
(* Model of the photo-scoring service of haroldlaw/FinalYearProject.       *)
(*                                                                         *)
(* Two revisions of the analysis service are modelled side by side:        *)
(*   "imageAnalysisService"  src/backend/services/imageAnalysisService.js  *)
(*                           (vision backend, then mock generator)         *)
(*   "part_000"              src/unnamed/part_000                          *)
(*                           (custom model, then vision backend, then      *)
(*                            fallback generator)                          *)
(* and the inline mock result of the upload route,                         *)
(*   "imageRoutes"           src/backend/routes/imageRoutes.js.            *)
(*                                                                         *)
(* Number representation.  JavaScript numbers that end up in a result are  *)
(* held as fixed-point values with one decimal digit (the value times      *)
(* ten), so that a non-integer output of the external model (45.5) and     *)
(* Math.round are representable.  The scoring functions of the vision      *)
(* path compute whole numbers in plain units; FromInt lifts them when the  *)
(* result object is built.  Confidences and colour coverage, which the     *)
(* vision backend reports as fractions in [0,1], are held in hundredths;   *)
(* bounding-box coordinates are held in hundredths too (0.33 is 33).       *)
(* Math.random() is held in thousandths (0 .. 999).                        *)
(***************************************************************************)
EXTENDS Integers, Sequences, FiniteSets, TLC

VARIABLES
    rev,        \* which revision / entry point serves the request
    env,        \* process configuration: USE_CUSTOM_MODEL, visionClient
    pc,         \* position of the request handler
    tempFile,   \* whether callPhotographyModel's temporary image file exists
    proc,       \* the spawned python process
    timer,      \* the setTimeout of callPhotographyModel
    promise,    \* the promise returned by callPhotographyModel
    detection,  \* what the vision backend answered
    args,       \* arguments of a directly applied pure function
    result,     \* the value the entry point returned
    outcome,    \* settlement of the entry point's promise
    result2,    \* the value returned by a second run on the same detection
    tmpdir,     \* os.tmpdir(): what each temporary file name holds
    calls,      \* two overlapping calls of callPhotographyModel
    subcalls    \* the five vision sub-calls of one request

vars == <<rev, env, pc, tempFile, proc, timer, promise, detection, args,
          result, outcome, result2, tmpdir, calls, subcalls>>

-----------------------------------------------------------------------------
(* Bounds of the explored inputs.                                          *)

MaxFaces == 2
MaxObjects == 6
MaxLabels == 2
MaxColors == 6

-----------------------------------------------------------------------------
(* Arithmetic helpers.                                                     *)

Min(a, b) == IF a < b THEN a ELSE b
Max(a, b) == IF a > b THEN a ELSE b
Abs(a) == IF a < 0 THEN -a ELSE a

\* A whole number n as a fixed-point value with one decimal digit.
FromInt(n) == n * 10

\* Math.round(num / den) for den > 0: floor(num/den + 1/2), ties upwards.
MathRoundDiv(num, den) == (2 * num + den) \div (2 * den)

\* Math.round(v) of a fixed-point value v, as a fixed-point value.
MathRound(v) == FromInt(MathRoundDiv(v, 10))

\* Math.floor(Math.random() * n), Math.random() = r / 1000.
RandomIndex(r, n) == (r * n) \div 1000

\* Array.prototype.slice(0, n).
\* Faulty variant: the last n elements instead of the first n.
Slice_tail(s, n) == SubSeq(s, Max(1, Len(s) - n + 1), Len(s))

Slice(s, n) == SubSeq(s, 1, Min(n, Len(s)))

RECURSIVE SumSeq(_)
SumSeq(s) == IF s = <<>> THEN 0 ELSE Head(s) + SumSeq(Tail(s))

-----------------------------------------------------------------------------
(* Strings that the code inspects are held as sequences of characters.     *)

Upper == <<"A", "C", "D", "E", "K", "L", "N", "P", "S", "Y">>
Lower == <<"a", "c", "d", "e", "k", "l", "n", "p", "s", "y">>

\* String.prototype.toLowerCase, one character.
LowerChar(c) ==
    IF \E i \in 1..Len(Upper) : Upper[i] = c
    THEN Lower[CHOOSE i \in 1..Len(Upper) : Upper[i] = c]
    ELSE c

toLowerCase(s) == [i \in 1..Len(s) |-> LowerChar(s[i])]

\* String.prototype.includes.
includes(s, needle) ==
    \E i \in 1..(Len(s) - Len(needle) + 1) :
        SubSeq(s, i, i + Len(needle) - 1) = needle

landscape == <<"l", "a", "n", "d", "s", "c", "a", "p", "e">>

-----------------------------------------------------------------------------
(* The four scoring functions (identical in both revisions).               *)

Clamp(score) == Min(100, Max(0, score))

\* faces[0].boundingPoly.vertices[0] and [2]; a face without vertices makes
\* the property access throw.
FaceThrows(faces) == Len(faces) > 0 /\ Len(faces[1].vertices) < 3

\* Faulty variant: the object rules are applied whether or not a face was found.
analyzeComposition_objects(faces, objects, landmarks) ==
    LET faceBonus ==
            IF Len(faces) > 0
            THEN LET vertices == faces[1].vertices
                     cx2 == vertices[1].x + vertices[3].x
                     cy2 == vertices[1].y + vertices[3].y
                 IN  40 + (IF cy2 > 66 /\ cy2 < 134 THEN 15 ELSE 0)
                        + (IF cx2 > 66 /\ cx2 < 134 THEN 15 ELSE 0)
            ELSE 0
        objectBonus ==
            IF Len(objects) > 0
            THEN 50 + (IF Len(objects) >= 2 /\ Len(objects) <= 5 THEN 20
                       ELSE IF Len(objects) >= 6 THEN 15 ELSE 0)
            ELSE 0
        subjectId == IF Len(landmarks) > 0 THEN 30 ELSE 0
    IN  Clamp(faceBonus + objectBonus + subjectId)

\* Faulty variant: a face bonus with the vertical rule-of-thirds test only.
analyzeComposition_vertical(faces, objects, landmarks) ==
    LET subject ==
            IF Len(faces) > 0
            THEN LET vertices == faces[1].vertices
                     cy2 == vertices[1].y + vertices[3].y
                 IN  40 + (IF cy2 > 66 /\ cy2 < 134 THEN 15 ELSE 0)
            ELSE IF Len(objects) > 0
            THEN 50 + (IF Len(objects) >= 2 /\ Len(objects) <= 5 THEN 20
                       ELSE IF Len(objects) >= 6 THEN 15 ELSE 0)
            ELSE 0
        subjectId == IF Len(landmarks) > 0 THEN 30 ELSE 0
    IN  Clamp(subject + subjectId)

\* The value of score just before the return statement.
analyzeComposition_score(faces, objects, landmarks) ==
    LET subject ==
            IF Len(faces) > 0
            THEN LET vertices == faces[1].vertices
                     cx2 == vertices[1].x + vertices[3].x   \* 2 * faceCenter.x
                     cy2 == vertices[1].y + vertices[3].y   \* 2 * faceCenter.y
                 IN  40 + (IF cy2 > 66 /\ cy2 < 134 THEN 15 ELSE 0)
                        + (IF cx2 > 66 /\ cx2 < 134 THEN 15 ELSE 0)
            ELSE IF Len(objects) > 0
            THEN 50 + (IF Len(objects) >= 2 /\ Len(objects) <= 5 THEN 20
                       ELSE IF Len(objects) >= 6 THEN 15 ELSE 0)
            ELSE 0
        subjectId == IF Len(landmarks) > 0 THEN 30 ELSE 0
    IN  subject + subjectId

analyzeComposition(faces, objects, landmarks) ==
    Clamp(analyzeComposition_score(faces, objects, landmarks))

\* obj.score of an object that carries none is undefined: the sum is NaN and
\* every comparison with it is false.
HasScore(obj) == "score" \in DOMAIN obj

ConfidenceSum(objects) ==
    SumSeq([i \in 1..Len(objects) |-> objects[i].score])

\* Faulty variant: the bonus of the second band is larger than that of the top band.
FocusTier_swapped(objects) ==
    IF \E i \in 1..Len(objects) : ~HasScore(objects[i]) THEN 0
    ELSE LET sum == ConfidenceSum(objects)
             n == Len(objects)
         IN  IF sum > 80 * n THEN 30
             ELSE IF sum > 60 * n THEN 40
             ELSE IF sum > 40 * n THEN 20
             ELSE IF sum > 20 * n THEN 10
             ELSE 0

FocusTier(objects) ==
    IF \E i \in 1..Len(objects) : ~HasScore(objects[i]) THEN 0
    ELSE LET sum == ConfidenceSum(objects)
             n == Len(objects)
         IN  IF sum > 80 * n THEN 40           \* avgConfidence > 0.8
             ELSE IF sum > 60 * n THEN 30      \* avgConfidence > 0.6
             ELSE IF sum > 40 * n THEN 20      \* avgConfidence > 0.4
             ELSE IF sum > 20 * n THEN 10      \* avgConfidence > 0.2
             ELSE 0

\* Faulty variant: the "start from 70" baseline of the other scoring policy.
analyzeFocus_base70(objects) ==
    LET score ==
            IF Len(objects) > 0
            THEN 40 + FocusTier(objects) + (IF Len(objects) > 3 THEN 20 ELSE 0)
            ELSE 70
    IN  Clamp(score)

\* Faulty variant: no bonus for more than three objects.
analyzeFocus_noCount(objects) ==
    LET score ==
            IF Len(objects) > 0
            THEN 40 + FocusTier(objects)
            ELSE 50
    IN  Clamp(score)

\* Faulty variant: the bonus for more than three objects is 30.
analyzeFocus_score_bonus30(objects) ==
    IF Len(objects) > 0
    THEN 40 + FocusTier(objects) + (IF Len(objects) > 3 THEN 30 ELSE 0)
    ELSE 50

\* The value of score just before the return statement.
analyzeFocus_score(objects) ==
    IF Len(objects) > 0
    THEN 40 + FocusTier(objects) + (IF Len(objects) > 3 THEN 20 ELSE 0)
    ELSE 50

analyzeFocus(objects) == Clamp(analyzeFocus_score(objects))

\* colors[i].color.red of a colour entry without channel values throws.
HasChannels(c) == "color" \in DOMAIN c

RgbSum(c) == c.color.red + c.color.green + c.color.blue

\* The value of score just before the return statement.
analyzeExposure_score(colors) ==
    LET score ==
            IF Len(colors) > 0
            THEN LET sum3 == RgbSum(colors[1])          \* 3 * brightness
                 IN  30
                     + (IF sum3 >= 240 /\ sum3 <= 600 THEN 50        \* 80..200
                        ELSE IF sum3 >= 180 /\ sum3 <= 660 THEN 35   \* 60..220
                        ELSE IF sum3 >= 120 /\ sum3 <= 720 THEN 20   \* 40..240
                        ELSE 10)
                     + (IF Len(colors) >= 5 THEN 20
                        ELSE IF Len(colors) >= 3 THEN 15
                        ELSE IF Len(colors) >= 2 THEN 5
                        ELSE 0)
            ELSE 50
    IN  score

analyzeExposure(colors) == Clamp(analyzeExposure_score(colors))

\* Faulty variant: the contrast is the difference of the RGB sums, not divided by 3.
analyzeColor_rawContrast(colors) ==
    LET score ==
            IF Len(colors) > 0
            THEN LET dominantColor == colors[1]
                     contrast ==
                         IF Len(colors) >= 2
                         THEN Abs(RgbSum(colors[1]) - RgbSum(colors[2]))
                         ELSE 0
                 IN  30
                     + (IF Len(colors) >= 6 THEN 35
                        ELSE IF Len(colors) >= 4 THEN 25
                        ELSE IF Len(colors) >= 2 THEN 15
                        ELSE 5)
                     + (IF dominantColor.score > 20 /\ dominantColor.score < 80
                        THEN 20
                        ELSE IF dominantColor.score > 10 /\ dominantColor.score < 90
                        THEN 15
                        ELSE 5)
                     + (IF Len(colors) >= 2
                        THEN (IF contrast > 80 THEN 15
                              ELSE IF contrast > 50 THEN 10
                              ELSE IF contrast > 20 THEN 5
                              ELSE 0)
                        ELSE 0)
            ELSE 30
    IN  Clamp(score)

\* The value of score just before the return statement.
analyzeColor_score(colors) ==
    LET score ==
            IF Len(colors) > 0
            THEN LET dominantColor == colors[1]
                     contrast3 ==                          \* 3 * contrast
                         IF Len(colors) >= 2
                         THEN Abs(RgbSum(colors[1]) - RgbSum(colors[2]))
                         ELSE 0
                 IN  30
                     + (IF Len(colors) >= 6 THEN 35
                        ELSE IF Len(colors) >= 4 THEN 25
                        ELSE IF Len(colors) >= 2 THEN 15
                        ELSE 5)
                     + (IF dominantColor.score > 20 /\ dominantColor.score < 80
                        THEN 20
                        ELSE IF dominantColor.score > 10 /\ dominantColor.score < 90
                        THEN 15
                        ELSE 5)
                     + (IF Len(colors) >= 2
                        THEN (IF contrast3 > 240 THEN 15         \* contrast > 80
                              ELSE IF contrast3 > 150 THEN 10    \* contrast > 50
                              ELSE IF contrast3 > 60 THEN 5      \* contrast > 20
                              ELSE 0)
                        ELSE 0)
            ELSE 30
    IN  score

analyzeColor(colors) == Clamp(analyzeColor_score(colors))

-----------------------------------------------------------------------------
(* Sources of nondeterminism inside one request.                           *)

\* Values of Math.random(), in thousandths.
RandPool == <<0, 250, 500, 999>>

\* A request draws Math.random() several times; a stream [a, b] fixes the
\* value of every draw: the i-th draw is RandPool[(a + b * (i - 1)) mod n].
RandomStreams ==
    [a : 0..(Len(RandPool) - 1), b : 0..(Len(RandPool) - 1)]

Draw(stream, i) ==
    RandPool[((stream.a + stream.b * (i - 1)) % Len(RandPool)) + 1]

\* Values of new Date().
Clock == {"t1", "t2"}

-----------------------------------------------------------------------------
(* Recommendation texts.                                                   *)

RecComposition == "Try using the rule of thirds - position key subjects along the grid lines for better composition"
RecFocus == "Consider using a faster shutter speed or better stabilization for sharper focus"
RecExposure == "Adjust exposure settings - try exposure compensation or different metering modes"
RecColor == "Experiment with white balance settings or post-processing to enhance color accuracy"
RecPortrait == "Great portrait detected! Consider using portrait mode or wider aperture for better background blur"
RecLandscape == "Beautiful landscape! Try using a polarizing filter to enhance sky contrast and reduce reflections"
RecSimplify == "Rich scene with multiple subjects - consider simplifying composition for stronger visual impact"
RecCreative == "Excellent technical execution! Try experimenting with creative angles or lighting for artistic effect"
RecRaw == "Consider shooting in RAW format to have more flexibility in post-processing exposure and color"
RecDefault == "Well-composed image! Continue exploring different subjects and lighting conditions"

PushIf(cond, recommendations, text) ==
    IF cond THEN Append(recommendations, text) ELSE recommendations

\* label.description && label.description.toLowerCase().includes('landscape')
IsLandscapeLabel(label) ==
    /\ "description" \in DOMAIN label
    /\ Len(label.description) > 0
    /\ includes(toLowerCase(label.description), landscape)

\* The "shoot RAW" rule exists in imageAnalysisService.js only.
HasRawRule(r) == r = "imageAnalysisService"

\* Faulty variant: the default is added whenever no score-deficiency rule fired.
generateRecommendations_default(r, compositionScore, focusScore, exposureScore, colorScore, labels, faces, objects) ==
    LET r1 == PushIf(compositionScore < 65, <<>>, RecComposition)
        r2 == PushIf(focusScore < 65, r1, RecFocus)
        r3 == PushIf(exposureScore < 65, r2, RecExposure)
        r4 == PushIf(colorScore < 65, r3, RecColor)
        r5 == PushIf(Len(faces) > 0, r4, RecPortrait)
        r6 == PushIf(\E i \in 1..Len(labels) : IsLandscapeLabel(labels[i]),
                     r5, RecLandscape)
        r7 == PushIf(Len(objects) > 3, r6, RecSimplify)
        r8 == PushIf(compositionScore >= 80 /\ focusScore >= 80, r7, RecCreative)
        r9 == PushIf(HasRawRule(r) /\ exposureScore < 60 /\ colorScore < 60,
                     r8, RecRaw)
        r10 == PushIf(Len(r4) = 0, r9, RecDefault)
    IN  Slice(r10, 3)

generateRecommendations(r, compositionScore, focusScore, exposureScore, colorScore, labels, faces, objects) ==
    LET r1 == PushIf(compositionScore < 65, <<>>, RecComposition)
        r2 == PushIf(focusScore < 65, r1, RecFocus)
        r3 == PushIf(exposureScore < 65, r2, RecExposure)
        r4 == PushIf(colorScore < 65, r3, RecColor)
        r5 == PushIf(Len(faces) > 0, r4, RecPortrait)
        r6 == PushIf(\E i \in 1..Len(labels) : IsLandscapeLabel(labels[i]),
                     r5, RecLandscape)
        r7 == PushIf(Len(objects) > 3, r6, RecSimplify)
        r8 == PushIf(compositionScore >= 80 /\ focusScore >= 80, r7, RecCreative)
        r9 == PushIf(HasRawRule(r) /\ exposureScore < 60 /\ colorScore < 60,
                     r8, RecRaw)
        r10 == PushIf(Len(r9) = 0, r9, RecDefault)
    IN  Slice(r10, 3)

-----------------------------------------------------------------------------
(* The vision path: scores, descriptors and the result object.            *)

RealTag(r) == IF r = "imageAnalysisService" THEN "REAL_AI" ELSE "GOOGLE_VISION"
\* Faulty variant: the fallback generator reuses the tag of the vision result.
FallbackTag_real(r) == RealTag(r)

FallbackTag(r) == IF r = "imageAnalysisService" THEN "MOCK" ELSE "FALLBACK"

\* A property access on missing data inside the try block of the vision path.
ScoringThrows(det) ==
    \/ FaceThrows(det.faces)
    \/ \E i \in 1..Min(3, Len(det.colors)) : ~HasChannels(det.colors[i])

\* (x?.score || 0.5), in hundredths.
ScoreOrHalf(s) ==
    IF Len(s) > 0 /\ HasScore(s[1]) /\ s[1].score # 0 THEN s[1].score ELSE 50

\* Faulty variant: the mean is truncated instead of rounded.
OverallOf_truncated(compositionScore, focusScore, exposureScore, colorScore) ==
    (compositionScore + focusScore + exposureScore + colorScore) \div 4

OverallOf(compositionScore, focusScore, exposureScore, colorScore) ==
    MathRoundDiv(compositionScore + focusScore + exposureScore + colorScore, 4)

VisionResult(r, det, rnd, now) ==
    LET labels == det.labels
        faces == det.faces
        objects == det.objects
        colors == det.colors
        compositionScore == analyzeComposition(faces, objects, labels)
        focusScore == analyzeFocus(objects)
        exposureScore == analyzeExposure(colors)
        colorScore == analyzeColor(colors)
        overallScore ==
            OverallOf(compositionScore, focusScore, exposureScore, colorScore)
    IN  [ overallScore |-> FromInt(overallScore),
          compositionScore |-> FromInt(compositionScore),
          focusScore |-> FromInt(focusScore),
          exposureScore |-> FromInt(exposureScore),
          colorScore |-> FromInt(colorScore),
          analysisMethod |-> RealTag(r),
          analysisSource |-> "Google Cloud Vision API",
          aiAnalysis |->
              [ labels |-> Slice(labels, 5),
                faces |-> Len(faces),
                objects |-> Slice(objects, 3),
                logos |-> det.logos,
                dominantColors |-> Slice(colors, 3) ],
          confidence |->
              FromInt(MathRoundDiv(ScoreOrHalf(labels) + ScoreOrHalf(objects), 2)),
          analysisDate |-> now,
          processingTime |-> RandomIndex(Draw(rnd, 1), 2000) + 1500,
          composition |->
              [ ruleOfThirds |->
                    IF compositionScore >= 85 THEN "Well Applied"
                    ELSE IF compositionScore >= 70 THEN "Partially Applied"
                    ELSE "Needs Improvement",
                balance |->
                    IF focusScore >= 85 THEN "Well Balanced"
                    ELSE IF focusScore >= 70 THEN "Balanced"
                    ELSE "Slightly Unbalanced",
                leadingLines |-> IF Len(objects) > 2 THEN "Present" ELSE "Subtle",
                symmetry |-> IF compositionScore >= 80 THEN "Good" ELSE "Fair" ],
          focus |->
              [ sharpness |->
                    IF focusScore >= 85 THEN "Very Sharp"
                    ELSE IF focusScore >= 70 THEN "Sharp"
                    ELSE "Slightly Soft",
                depthOfField |-> IF Len(objects) > 1 THEN "Appropriate" ELSE "Shallow",
                focusPoint |-> IF Len(faces) > 0 THEN "Well Placed" ELSE "Centered" ],
          exposure |->
              [ level |->
                    IF exposureScore >= 85 THEN "Perfectly Exposed"
                    ELSE IF exposureScore >= 70 THEN "Well Exposed"
                    ELSE "Needs Adjustment",
                highlights |->
                    IF Len(colors) > 0 /\ colors[1].score < 80
                    THEN "Well Controlled" ELSE "Preserved",
                shadows |-> IF exposureScore >= 75 THEN "Detailed" ELSE "Acceptable",
                dynamicRange |-> IF Len(colors) >= 3 THEN "Good" ELSE "Limited" ],
          color |->
              [ whiteBalance |->
                    IF colorScore >= 80 THEN "Natural"
                    ELSE IF colorScore >= 70 THEN "Slightly Warm"
                    ELSE "Needs Adjustment",
                contrast |->
                    IF colorScore >= 85 THEN "Balanced"
                    ELSE IF colorScore >= 70 THEN "Good"
                    ELSE "Low",
                saturation |-> IF Len(colors) >= 3 THEN "Rich" ELSE "Moderate" ],
          recommendations |->
              generateRecommendations(r, compositionScore, focusScore,
                                      exposureScore, colorScore,
                                      labels, faces, objects) ]

-----------------------------------------------------------------------------
(* The fallback / mock generator.                                          *)

FallbackBase(r) == IF r = "imageAnalysisService" THEN 0 ELSE 40

\* Faulty variant: every revision draws from the full 0..99 range.
FallbackVariance_wide(r) == 100
FallbackVariance(r) == IF r = "imageAnalysisService" THEN 100 ELSE 40

FallbackRecommendations ==
    << "Consider experimenting with different angles for more dynamic composition",
       "Try adjusting exposure slightly to enhance detail in shadows",
       "Experiment with different focal points for improved visual interest" >>

\* vocabulary[Math.floor(Math.random() * n)]; an index past the end of the
\* array yields undefined.
Pick(vocabulary, r, n) ==
    IF RandomIndex(r, n) + 1 <= Len(vocabulary)
    THEN vocabulary[RandomIndex(r, n) + 1]
    ELSE "undefined"

generateFallbackAnalysis(r, rnd, now) ==
    LET base == FallbackBase(r)
        variance == FallbackVariance(r)
        compositionScore == base + RandomIndex(Draw(rnd, 1), variance)
        focusScore == base + RandomIndex(Draw(rnd, 2), variance)
        exposureScore == base + RandomIndex(Draw(rnd, 3), variance)
        colorScore == base + RandomIndex(Draw(rnd, 4), variance)
        overallScore ==
            OverallOf(compositionScore, focusScore, exposureScore, colorScore)
    IN  [ analysisMethod |-> FallbackTag(r),
          analysisSource |->
              IF r = "imageAnalysisService" THEN "Fallback Mock Analysis"
              ELSE "Fallback Analysis (No AI Available)",
          overallScore |-> FromInt(overallScore),
          compositionScore |-> FromInt(compositionScore),
          focusScore |-> FromInt(focusScore),
          exposureScore |-> FromInt(exposureScore),
          colorScore |-> FromInt(colorScore),
          aiAnalysis |->
              [ labels |->
                    IF r = "imageAnalysisService"
                    THEN << [description |-> "Image analysis", confidence |-> 85] >>
                    ELSE << [description |-> "Basic image analysis", confidence |-> 70] >>,
                faces |-> 0, objects |-> <<>>,
                logos |-> <<>>, dominantColors |-> <<>> ],
          confidence |->
              FromInt((IF r = "imageAnalysisService" THEN 75 ELSE 60)
                      + RandomIndex(Draw(rnd, 5), 20)),
          analysisDate |-> now,
          processingTime |->
              IF r = "imageAnalysisService"
              THEN 1500 + RandomIndex(Draw(rnd, 6), 1000)
              ELSE 500 + RandomIndex(Draw(rnd, 6), 500),
          composition |->
              [ ruleOfThirds |->
                    Pick(<<"Well Applied", "Partially Applied", "Needs Improvement">>,
                         Draw(rnd, 7), 3),
                balance |->
                    Pick(<<"Well Balanced", "Balanced", "Slightly Unbalanced">>,
                         Draw(rnd, 8), 3),
                leadingLines |-> Pick(<<"Present", "Subtle", "Strong">>, Draw(rnd, 9), 3),
                symmetry |-> Pick(<<"Good", "Fair", "Excellent">>, Draw(rnd, 10), 3) ],
          focus |->
              [ sharpness |->
                    Pick(<<"Very Sharp", "Sharp", "Slightly Soft">>, Draw(rnd, 11), 3),
                depthOfField |->
                    Pick(<<"Appropriate", "Shallow", "Deep">>, Draw(rnd, 12), 3),
                focusPoint |->
                    Pick(<<"Well Placed", "Centered", "Off-Center">>, Draw(rnd, 13), 3) ],
          exposure |->
              [ level |->
                    Pick(<<"Perfectly Exposed", "Well Exposed", "Needs Adjustment">>,
                         Draw(rnd, 14), 3),
                highlights |->
                    Pick(<<"Well Controlled", "Preserved", "Slightly Blown">>,
                         Draw(rnd, 15), 3),
                shadows |-> Pick(<<"Detailed", "Acceptable", "Too Dark">>, Draw(rnd, 16), 3),
                dynamicRange |-> Pick(<<"Good", "Limited", "Wide">>, Draw(rnd, 17), 3) ],
          color |->
              [ whiteBalance |->
                    Pick(<<"Natural", "Slightly Warm", "Slightly Cool">>,
                         Draw(rnd, 18), 3),
                contrast |->
                    Pick(<<"Balanced", "Good", "Needs Enhancement">>, Draw(rnd, 19), 3),
                saturation |-> Pick(<<"Rich", "Moderate", "Vibrant">>, Draw(rnd, 20), 3) ],
          recommendations |-> FallbackRecommendations ]

-----------------------------------------------------------------------------
(* The inline mock result of the upload route.                             *)

RouteMockResult(rnd, now) ==
    [ confidence |-> FromInt(RandomIndex(Draw(rnd, 1), 30) + 70),
      analysisDate |-> now,
      processingTime |-> RandomIndex(Draw(rnd, 2), 3000) + 1000,
      composition |->
          [ ruleOfThirds |->
                Pick(<<"Well Applied", "Partially Applied", "Not Applied">>,
                     Draw(rnd, 3), 3),
            balance |->
                Pick(<<"Balanced", "Slightly Unbalanced", "Well Balanced">>,
                     Draw(rnd, 4), 3),
            leadingLines |->
                Pick(<<"Present", "Strong", "Subtle", "Absent">>, Draw(rnd, 5), 4),
            symmetry |-> Pick(<<"Good", "Excellent", "Fair", "Poor">>, Draw(rnd, 6), 4) ],
      focus |->
          [ sharpness |->
                Pick(<<"Sharp", "Very Sharp", "Slightly Soft", "Soft">>, Draw(rnd, 7), 4),
            depthOfField |->
                Pick(<<"Appropriate", "Shallow", "Deep", "Too Shallow">>,
                     Draw(rnd, 8), 4),
            focusPoint |->
                Pick(<<"Well Placed", "Centered", "Off-Center", "Poor">>,
                     Draw(rnd, 9), 4) ],
      exposure |->
          [ level |->
                Pick(<<"Perfectly Exposed", "Slightly Overexposed",
                       "Slightly Underexposed">>, Draw(rnd, 10), 4),
            highlights |->
                Pick(<<"Preserved", "Blown Out", "Well Controlled", "Clipped">>,
                     Draw(rnd, 11), 4),
            shadows |->
                Pick(<<"Detailed", "Too Dark", "Well Lifted", "Crushed">>,
                     Draw(rnd, 12), 4),
            dynamicRange |->
                Pick(<<"Good", "Excellent", "Limited", "Wide">>, Draw(rnd, 13), 4) ],
      color |->
          [ whiteBalance |->
                Pick(<<"Too Warm", "Too Cool", "Natural">>, Draw(rnd, 14), 4),
            contrast |-> Pick(<<"High", "Low", "Balanced">>, Draw(rnd, 15), 4) ],
      recommendations |->
          << "Consider experimenting with different angles for more dynamic composition",
             "Try adjusting exposure slightly to enhance detail in shadows",
             "The current color balance works well for this subject matter",
             "Focus point placement follows good photography principles" >> ]

-----------------------------------------------------------------------------
(* The custom-model path of part_000.                                      *)

\* modelResults.<field> || fallback: an absent field and 0 are both falsy.
FieldOr(m, f, fallback) ==
    IF f \in DOMAIN m /\ m[f] # 0 THEN m[f] ELSE fallback

\* modelResults.<f> < modelResults.<g> - 10; a comparison with undefined is false.
FieldBelow(m, f, g) ==
    /\ f \in DOMAIN m
    /\ g \in DOMAIN m
    /\ m[f] < m[g] - FromInt(10)

getAestheticRating(score) ==
    IF score >= FromInt(90) THEN "Exceptional"
    ELSE IF score >= FromInt(80) THEN "Excellent"
    ELSE IF score >= FromInt(70) THEN "Very Good"
    ELSE IF score >= FromInt(60) THEN "Good"
    ELSE IF score >= FromInt(50) THEN "Average"
    ELSE IF score >= FromInt(40) THEN "Below Average"
    ELSE "Needs Improvement"

Band(score, hi, lo, a, b, c) ==
    IF score >= FromInt(hi) THEN a ELSE IF score >= FromInt(lo) THEN b ELSE c

getCompositionAnalysis(score) ==
    [ ruleOfThirds |->
          Band(score, 80, 60, "Well Applied", "Partially Applied", "Needs Improvement"),
      balance |-> Band(score, 80, 60, "Well Balanced", "Balanced", "Unbalanced"),
      leadingLines |-> Band(score, 75, 60, "Effective", "Present", "Subtle"),
      symmetry |-> Band(score, 85, 70, "Excellent", "Good", "Fair") ]

getFocusAnalysis(score) ==
    [ sharpness |-> Band(score, 85, 70, "Very Sharp", "Sharp", "Slightly Soft"),
      depthOfField |-> Band(score, 80, 60, "Excellent", "Appropriate", "Needs Work"),
      focusPoint |-> Band(score, 75, 60, "Well Placed", "Acceptable", "Off-Target") ]

getExposureAnalysis(score) ==
    [ level |-> Band(score, 85, 70, "Perfect", "Well Exposed", "Needs Adjustment"),
      highlights |-> Band(score, 80, 60, "Well Controlled", "Preserved", "Blown"),
      shadows |-> Band(score, 75, 60, "Detailed", "Acceptable", "Too Dark"),
      dynamicRange |-> Band(score, 80, 60, "Excellent", "Good", "Limited") ]

getColorAnalysis(score) ==
    [ whiteBalance |-> Band(score, 80, 60, "Natural", "Good", "Needs Adjustment"),
      contrast |-> Band(score, 85, 70, "Perfect", "Balanced", "Low"),
      saturation |-> Band(score, 80, 60, "Rich", "Natural", "Flat") ]

generateModelBasedRecommendations(aestheticScore, modelResults) ==
    LET r1 == << IF aestheticScore < FromInt(50)
                 THEN "Focus on basic photography fundamentals: proper exposure, sharp focus, and clear composition"
                 ELSE IF aestheticScore < FromInt(60)
                 THEN "Good start! Work on composition techniques like rule of thirds and leading lines"
                 ELSE IF aestheticScore < FromInt(75)
                 THEN "Solid foundation! Experiment with creative angles, lighting, and depth of field"
                 ELSE IF aestheticScore < FromInt(85)
                 THEN "Strong technical skills! Consider exploring more artistic elements and emotional storytelling"
                 ELSE "Exceptional work! Continue pushing creative boundaries and developing your unique style" >>
        r2 == PushIf(FieldBelow(modelResults, "focus_score", "aesthetic_score"), r1,
                     "Pay attention to focus accuracy and sharpness for better impact")
        r3 == PushIf(FieldBelow(modelResults, "composition_score", "aesthetic_score"), r2,
                     "Strengthen composition by applying rule of thirds and visual balance principles")
        r4 == PushIf(FieldBelow(modelResults, "exposure_score", "aesthetic_score"), r3,
                     "Improve exposure control to better capture highlight and shadow detail")
        r5 == PushIf("confidence" \in DOMAIN modelResults
                        /\ modelResults.confidence < FromInt(70), r4,
                     "Consider retaking the shot with better lighting or different angle for clearer evaluation")
    IN  Slice(r5, 3)

\* JSON.parse(result) gave null (modelResults.error throws a TypeError) or an
\* object with a truthy error member (the code throws "Model error").
ModelResultThrows(modelResults) ==
    \/ modelResults.kind = "null"
    \/ "error" \in DOMAIN modelResults

CustomResult(modelResults, elapsed, now) ==
    LET aestheticScore == FieldOr(modelResults, "aesthetic_score", FromInt(50))
        compositionScore == FieldOr(modelResults, "composition_score", aestheticScore)
        focusScore == FieldOr(modelResults, "focus_score", aestheticScore)
        exposureScore == FieldOr(modelResults, "exposure_score", aestheticScore)
        colorScore == FieldOr(modelResults, "color_score", aestheticScore)
        overallScore == MathRound(aestheticScore)
    IN  [ overallScore |-> overallScore,
          aestheticScore |-> aestheticScore,
          compositionScore |-> compositionScore,
          focusScore |-> focusScore,
          exposureScore |-> exposureScore,
          colorScore |-> colorScore,
          analysisMethod |-> "CUSTOM_AI",
          analysisSource |-> "Custom Photography Evaluation Model",
          aiAnalysis |->
              [ modelOutput |-> modelResults,
                aestheticRating |-> getAestheticRating(aestheticScore),
                modelConfidence |-> FieldOr(modelResults, "confidence", FromInt(80)) ],
          confidence |-> FieldOr(modelResults, "confidence", FromInt(80)),
          analysisDate |-> now,
          processingTime |-> elapsed,
          composition |-> getCompositionAnalysis(compositionScore),
          focus |-> getFocusAnalysis(focusScore),
          exposure |-> getExposureAnalysis(exposureScore),
          color |-> getColorAnalysis(colorScore),
          recommendations |->
              generateModelBasedRecommendations(aestheticScore, modelResults) ]

-----------------------------------------------------------------------------
(* Inputs: what the vision backend and the external model may answer.      *)

Face(x0, y0, x2, y2) ==
    [ vertices |-> << [x |-> x0, y |-> y0], [x |-> x2, y |-> y0],
                      [x |-> x2, y |-> y2], [x |-> x0, y |-> y2] >> ]

CenteredFace == Face(40, 40, 60, 60)            \* centre (0.5, 0.5), normalized
TopFace == Face(40, 0, 60, 20)                  \* centre (0.5, 0.1), normalized
PixelFace == Face(12000, 8000, 30000, 26000)    \* pixel coordinates 120..300
NoVerticesFace == [vertices |-> <<>>]

Obj(s) == [name |-> "Object", score |-> s]
NoScoreObj == [name |-> "Object"]

Color(r, g, b, s) == [color |-> [red |-> r, green |-> g, blue |-> b], score |-> s]
NoChannelColor == [score |-> 40]

MidColor == Color(120, 130, 125, 50)
GreenColor == Color(40, 200, 60, 30)
DimColor == Color(70, 70, 70, 15)
DarkColor == Color(45, 50, 55, 88)
WhiteColor == Color(250, 250, 250, 95)

Label(d, s) == [description |-> d, score |-> s]
SkyLabel == Label(<<"S", "k", "y">>, 90)
LandscapeLabel == Label(<<"L", "a", "n", "d", "s", "c", "a", "p", "e">>, 80)
NoDescriptionLabel == [score |-> 70]

\* All sequences of at most n elements of S.
SeqsUpTo(S, n) == UNION { [1..k -> S] : k \in 0..n }

\* Object lists of at most n objects with confidences from levels, in
\* descending order of confidence.
ObjectLists(levels, n) ==
    { s \in SeqsUpTo({ Obj(c) : c \in levels }, n) :
        \A i \in 1..(Len(s) - 1) : s[i].score >= s[i + 1].score }

\* Colour lists of at most n colours: a first colour, a second colour and
\* further filler colours.
ColorLists(n) ==
    { [i \in 1..k |-> IF i = 1 THEN c1 ELSE IF i = 2 THEN c2 ELSE DimColor] :
        k \in 0..n,
        c1 \in {MidColor, DimColor, DarkColor, WhiteColor},
        c2 \in {GreenColor, MidColor, WhiteColor} }

Detection(fs, os, ls, cs, lg) ==
    [ kind |-> "detection", faces |-> fs, objects |-> os, labels |-> ls,
      colors |-> cs, logos |-> lg ]

\* Every combination of well-formed detection data within the bounds.
DetInputs ==
    { Detection(fs, os, ls, cs, <<>>) :
        fs \in SeqsUpTo({CenteredFace, PixelFace}, MaxFaces),
        os \in ObjectLists({90, 20}, MaxObjects),
        ls \in SeqsUpTo({SkyLabel}, MaxLabels),
        cs \in ColorLists(MaxColors) }

\* A small pool of answers for the request pipeline, malformed data included.
DetPool ==
    { Detection(<<>>, <<>>, <<>>, <<>>, <<>>),
      Detection(<<CenteredFace>>, <<>>, <<>>, <<>>, <<>>),
      Detection(<<TopFace, CenteredFace>>, <<Obj(90)>>, <<SkyLabel>>,
                <<MidColor, GreenColor>>, <<"Brand">>),
      Detection(<<>>, <<Obj(90), Obj(85), Obj(88), Obj(91)>>,
                <<LandscapeLabel, NoDescriptionLabel>>,
                <<MidColor, GreenColor, DimColor, DarkColor, WhiteColor, DimColor>>,
                <<>>),
      Detection(<<>>, <<Obj(30), NoScoreObj>>, <<>>, <<WhiteColor>>, <<>>),
      Detection(<<NoVerticesFace>>, <<Obj(90)>>, <<SkyLabel>>, <<MidColor>>, <<>>),
      Detection(<<>>, <<>>, <<>>, <<MidColor, NoChannelColor>>, <<>>) }

\* Parsed outputs of the python model (scores as fixed-point values).
ModelOutputs ==
    { [kind |-> "null"],
      [kind |-> "object"],
      [kind |-> "object", error |-> "Image could not be loaded"],
      [kind |-> "object", aesthetic_score |-> 800, composition_score |-> 700,
        focus_score |-> 900, exposure_score |-> 600, color_score |-> 850,
        confidence |-> 900],
      [kind |-> "object", aesthetic_score |-> 455],
      [kind |-> "object", aesthetic_score |-> 0, focus_score |-> 0],
      [kind |-> "object", aesthetic_score |-> 1500, confidence |-> 650],
      [kind |-> "object", aesthetic_score |-> 800, composition_score |-> 200,
        focus_score |-> 200, exposure_score |-> 200, color_score |-> 200,
        confidence |-> 500] }

\* Date.now() - startTime of the custom-model call, in milliseconds.
Elapsed == {120, 14000}

NoValue == [kind |-> "none"]

-----------------------------------------------------------------------------
(* Control flow of the entry points.  An exception is carried as data: a   *)
(* settlement says how the entry point's promise ends and with which       *)
(* result; "pending" means the handler is suspended at the vision await.   *)

Resolved(r) == [outcome |-> "resolved", result |-> r]
Rejected == [outcome |-> "rejected", result |-> NoValue]
Suspended == [outcome |-> "pending", result |-> NoValue]

\* Faulty variant: the catch block logs and rethrows.
VisionCatch_rethrow(r, rnd, now) == Rejected

\* The catch block of the vision path: every exception of the try block
\* ends in the fallback generator.
VisionCatch(r, rnd, now) == Resolved(generateFallbackAnalysis(r, rnd, now))

\* The vision path up to its await: without a client it throws at once.
VisionEntry(r, e, rnd, now) ==
    IF e.visionClient THEN Suspended ELSE VisionCatch(r, rnd, now)

\* Faulty variant: the reported confidence gets the random jitter that the fallback
\* generator uses.
VisionScore_jitter(r, det, rnd, now) ==
    IF ScoringThrows(det)
    THEN VisionCatch(r, rnd, now)
    ELSE Resolved([VisionResult(r, det, rnd, now) EXCEPT
                      !.confidence = FromInt(75 + RandomIndex(Draw(rnd, 2), 20))])

\* The vision path after Promise.all has resolved with det.
VisionScore(r, det, rnd, now) ==
    IF ScoringThrows(det)
    THEN VisionCatch(r, rnd, now)
    ELSE Resolved(VisionResult(r, det, rnd, now))

\* Faulty variant: a rejected custom-model call is answered with a CUSTOM_AI result
\* built from the default scores.
CustomContinue_default(p, e, elapsed, rnd, now) ==
    IF p.state = "resolved" /\ ~ModelResultThrows(p.value)
    THEN Resolved(CustomResult(p.value, elapsed, now))
    ELSE Resolved(CustomResult([kind |-> "object"], elapsed, now))

\* Faulty variant: a failed custom model goes straight to the fallback generator.
CustomContinue_flat(p, e, elapsed, rnd, now) ==
    IF p.state = "resolved" /\ ~ModelResultThrows(p.value)
    THEN Resolved(CustomResult(p.value, elapsed, now))
    ELSE VisionCatch("part_000", rnd, now)

\* analyzeImageWithCustomAI after its await on callPhotographyModel's
\* promise p: a result of the custom model, or (catch) the vision path.
CustomContinue(p, e, elapsed, rnd, now) ==
    IF p.state = "resolved" /\ ~ModelResultThrows(p.value)
    THEN Resolved(CustomResult(p.value, elapsed, now))
    ELSE VisionEntry("part_000", e, rnd, now)

Deliver(s) ==
    /\ outcome' = s.outcome
    /\ result' = s.result
    /\ pc' = IF s.outcome = "pending" THEN "awaitVision" ELSE "done"

-----------------------------------------------------------------------------
(* callPhotographyModel: the promise executor and its three callbacks.     *)

Pending == [state |-> "pending", value |-> NoValue]
ModelError(msg) == [state |-> "rejected", value |-> [kind |-> "error", message |-> msg]]
ModelValue(m) == [state |-> "resolved", value |-> m]

\* Faulty variant: the last call of resolve / reject wins.
Settle_last(p, q) == q

\* resolve / reject of an already settled promise has no effect.
Settle(p, q) == IF p.state = "pending" THEN q ELSE p

\* How the python process may end: exit code 0 with parseable output, exit
\* code 0 with unparseable output, any other exit code or a signal.
ExitOutcomes ==
    { [code |-> "zero", stdout |-> "json", output |-> m] : m \in ModelOutputs }
    \cup { [code |-> "zero", stdout |-> "garbage"], [code |-> "nonzero"] }

CloseSettlement(exit) ==
    IF exit.code = "zero"
    THEN IF exit.stdout = "json"
         THEN ModelValue(exit.output)
         ELSE ModelError("Failed to parse model output")
    ELSE ModelError("Model execution failed")

\* The executor: write the temp file, spawn, attach handlers, arm the timer.
\* Either of writeFileSync and spawn may throw; the catch rejects.
callPhotographyModel(write, spawn) ==
    IF write = "throws"
    THEN /\ tempFile' = FALSE
         /\ proc' = "none"
         /\ timer' = "unset"
         /\ promise' = ModelError("Failed to create temporary file")
    ELSE IF spawn = "throws"
    THEN /\ tempFile' = TRUE
         /\ proc' = "none"
         /\ timer' = "unset"
         /\ promise' = ModelError("Failed to create temporary file")
    ELSE /\ tempFile' = TRUE
         /\ proc' = "running"
         /\ timer' = "armed"
         /\ promise' = Pending

\* pythonProcess.on('close')
ProcessClose ==
    /\ proc \in {"running", "killed", "errored"}
    /\ \E exit \in ExitOutcomes :
          promise' = Settle(promise, CloseSettlement(exit))
    /\ proc' = "closed"
    /\ tempFile' = FALSE
    /\ UNCHANGED <<tmpdir, calls, subcalls, rev, env, pc, timer, detection, args, result, outcome, result2>>

\* pythonProcess.on('error')
ProcessError ==
    /\ proc = "running"
    /\ promise' = Settle(promise, ModelError("spawn error"))
    /\ proc' = "errored"
    /\ tempFile' = FALSE
    /\ UNCHANGED <<tmpdir, calls, subcalls, rev, env, pc, timer, detection, args, result, outcome, result2>>

\* The setTimeout callback; the timer is never cleared.
Timeout ==
    /\ timer = "armed"
    /\ timer' = "fired"
    /\ proc' = IF proc = "running" THEN "killed" ELSE proc
    /\ tempFile' = FALSE
    /\ promise' = Settle(promise, ModelError("Model execution timeout"))
    /\ UNCHANGED <<tmpdir, calls, subcalls, rev, env, pc, detection, args, result, outcome, result2>>

-----------------------------------------------------------------------------
(* The request handlers.                                                   *)

\* analyzeImageWithAI of part_000 with USE_CUSTOM_MODEL: runs
\* analyzeImageWithCustomAI up to its await.
StartCustom ==
    /\ pc = "idle"
    /\ rev = "part_000"
    /\ env.useCustomModel
    /\ \E write \in {"ok", "throws"}, spawn \in {"ok", "throws"} :
          callPhotographyModel(write, spawn)
    /\ pc' = "awaitModel"
    /\ UNCHANGED <<tmpdir, calls, subcalls, rev, env, detection, args, result, outcome, result2>>

\* analyzeImageWithCustomAI resumes once callPhotographyModel's promise has
\* settled.
CustomResume ==
    /\ pc = "awaitModel"
    /\ promise.state \in {"resolved", "rejected"}
    /\ \E elapsed \in Elapsed, rnd \in RandomStreams, now \in Clock :
          Deliver(CustomContinue(promise, env, elapsed, rnd, now))
    /\ UNCHANGED <<tmpdir, calls, subcalls, rev, env, tempFile, proc, timer, promise, detection, args, result2>>

\* analyzeImageWithAI of imageAnalysisService.js, and of part_000 without
\* USE_CUSTOM_MODEL: the vision path up to its await.
StartVision ==
    /\ pc = "idle"
    /\ \/ rev = "imageAnalysisService"
       \/ rev = "part_000" /\ ~env.useCustomModel
    /\ \E rnd \in RandomStreams, now \in Clock :
          Deliver(VisionEntry(rev, env, rnd, now))
    /\ UNCHANGED <<tmpdir, calls, subcalls, rev, env, tempFile, proc, timer, promise, detection, args, result2>>

\* Promise.all of the five vision calls resolves with a detection from D.
VisionResolve(D, R, T) ==
    /\ pc = "awaitVision"
    /\ \E det \in D, rnd \in R, now \in T :
          /\ detection' = det
          /\ Deliver(VisionScore(rev, det, rnd, now))
    /\ UNCHANGED <<tmpdir, calls, subcalls, rev, env, tempFile, proc, timer, promise, args, result2>>

\* Promise.all rejects: one of the five vision calls failed.
VisionReject ==
    /\ pc = "awaitVision"
    /\ \E rnd \in RandomStreams, now \in Clock :
          Deliver(VisionCatch(rev, rnd, now))
    /\ detection' = [kind |-> "failed"]
    /\ UNCHANGED <<tmpdir, calls, subcalls, rev, env, tempFile, proc, timer, promise, args, result2>>

\* The upload route builds its mock analysis result inline.
RouteUpload ==
    /\ pc = "idle"
    /\ rev = "imageRoutes"
    /\ \E rnd \in RandomStreams, now \in Clock :
          Deliver(Resolved(RouteMockResult(rnd, now)))
    /\ UNCHANGED <<tmpdir, calls, subcalls, rev, env, tempFile, proc, timer, promise, detection, args, result2>>

-----------------------------------------------------------------------------
(* Two calls of callPhotographyModel at overlapping times.  Both write     *)
(* into os.tmpdir(); call i carries image i.                               *)

Requests == {1, 2}

Image(i) == IF i = 1 THEN "img1" ELSE "img2"

\* Math.random().toString(36).substr(2, 9) keeps a prefix of the digits of
\* the draw: here the leading two of its three decimal digits.
RandomSuffix(r) == r \div 10

\* temp_image_${Date.now()}_${Math.random().toString(36).substr(2, 9)}.jpg
TempImagePath(now, r) == [now |-> now, suffix |-> RandomSuffix(r)]

\* Draws of Math.random() for the file name.
NameDraws == {RandPool[1], RandPool[2]}

TempImagePaths == { TempImagePath(now, r) : now \in Clock, r \in NameDraws }

EmptyDir == [n \in TempImagePaths |-> "absent"]

NoCall ==
    [ path |-> NoValue, proc |-> "none", timer |-> "unset",
      promise |-> [state |-> "none", value |-> NoValue], seen |-> "unread" ]

NoCalls == [i \in Requests |-> NoCall]

\* What the python model prints for an image: different images, different
\* scores.
ModelOutputOf(img) ==
    [kind |-> "object", aesthetic_score |-> IF img = "img1" THEN 800 ELSE 455]

\* fs.existsSync(path) followed by fs.unlinkSync(path).
Unlink(dir, path) == [dir EXCEPT ![path] = "absent"]

\* The executor of call i: the name is built from the clock and a random
\* draw, writeFileSync creates or overwrites the file, spawn starts the
\* process, the timer is armed.
PairStart(i) ==
    /\ calls[i].proc = "none" /\ calls[i].promise.state = "none"
    /\ \E now \in Clock, r \in NameDraws, write \in {"ok", "throws"},
          spawn \in {"ok", "throws"} :
          LET path == TempImagePath(now, r)
          IN  IF write = "throws"
              THEN /\ tmpdir' = tmpdir
                   /\ calls' = [calls EXCEPT ![i] =
                          [NoCall EXCEPT
                              !.path = path,
                              !.promise = ModelError("Failed to create temporary file")]]
              ELSE /\ tmpdir' = [tmpdir EXCEPT ![path] = Image(i)]
                   /\ calls' = [calls EXCEPT ![i] =
                          IF spawn = "throws"
                          THEN [NoCall EXCEPT
                                   !.path = path,
                                   !.promise = ModelError("Failed to create temporary file")]
                          ELSE [NoCall EXCEPT
                                   !.path = path, !.proc = "running",
                                   !.timer = "armed", !.promise = Pending]]
    /\ UNCHANGED <<subcalls, rev, env, pc, tempFile, proc, timer, promise, detection, args,
                   result, outcome, result2>>

\* The python process of call i opens the file it was given.
PairRead(i) ==
    /\ calls[i].proc = "running"
    /\ calls[i].seen = "unread"
    /\ calls' = [calls EXCEPT ![i].seen = tmpdir[calls[i].path]]
    /\ UNCHANGED <<tmpdir, subcalls, rev, env, pc, tempFile, proc, timer, promise, detection,
                   args, result, outcome, result2>>

\* How the process of call c may end: only a process that ran to its end on
\* an image it could read exits with code 0.
PairExits(c) ==
    IF c.proc = "running" /\ c.seen \in {"img1", "img2"}
    THEN { [code |-> "zero", stdout |-> "json", output |-> ModelOutputOf(c.seen)],
           [code |-> "zero", stdout |-> "garbage"], [code |-> "nonzero"] }
    ELSE { [code |-> "nonzero"] }

\* pythonProcess.on('close') of call i.
PairClose(i) ==
    /\ calls[i].proc \in {"running", "killed", "errored"}
    /\ \E exit \in PairExits(calls[i]) :
          calls' = [calls EXCEPT
                       ![i].proc = "closed",
                       ![i].promise = Settle(calls[i].promise, CloseSettlement(exit))]
    /\ tmpdir' = Unlink(tmpdir, calls[i].path)
    /\ UNCHANGED <<subcalls, rev, env, pc, tempFile, proc, timer, promise, detection, args,
                   result, outcome, result2>>

\* pythonProcess.on('error') of call i.
PairError(i) ==
    /\ calls[i].proc = "running"
    /\ calls[i].seen = "unread"
    /\ calls' = [calls EXCEPT
                    ![i].proc = "errored",
                    ![i].promise = Settle(calls[i].promise, ModelError("spawn error"))]
    /\ tmpdir' = Unlink(tmpdir, calls[i].path)
    /\ UNCHANGED <<subcalls, rev, env, pc, tempFile, proc, timer, promise, detection, args,
                   result, outcome, result2>>

\* The setTimeout callback of call i.
PairTimeout(i) ==
    /\ calls[i].timer = "armed"
    /\ calls' = [calls EXCEPT
                    ![i].timer = "fired",
                    ![i].proc = IF calls[i].proc = "running" THEN "killed"
                                ELSE calls[i].proc,
                    ![i].promise = Settle(calls[i].promise,
                                          ModelError("Model execution timeout"))]
    /\ tmpdir' = Unlink(tmpdir, calls[i].path)
    /\ UNCHANGED <<subcalls, rev, env, pc, tempFile, proc, timer, promise, detection, args,
                   result, outcome, result2>>

-----------------------------------------------------------------------------
(* The vision path with its five sub-calls taken one by one.  Promise.all  *)
(* fulfils when all of them have fulfilled and rejects as soon as one of   *)
(* them rejects; the calls still pending then run on, unobserved.          *)

Subcalls ==
    {"labelDetection", "faceDetection", "objectLocalization", "imageProperties",
     "logoDetection"}

NoSubcalls == [k \in Subcalls |-> "idle"]

\* Faulty variant: the handler goes on as soon as one call has fulfilled.
Joined_any(sc) == \E k \in Subcalls : sc[k] = "fulfilled"

\* Promise.all([...]) has fulfilled.
Joined(sc) == \A k \in Subcalls : sc[k] = "fulfilled"

\* Promise.all([...]) has rejected.
JoinFailed(sc) == \E k \in Subcalls : sc[k] = "rejected"

\* The vision path up to its await: the five calls are issued together.
JoinStart ==
    /\ pc = "idle"
    /\ \/ rev = "imageAnalysisService"
       \/ rev = "part_000" /\ ~env.useCustomModel
    /\ \E rnd \in RandomStreams, now \in Clock :
          Deliver(VisionEntry(rev, env, rnd, now))
    /\ subcalls' = IF env.visionClient THEN [k \in Subcalls |-> "pending"]
                   ELSE subcalls
    /\ UNCHANGED <<tmpdir, calls, rev, env, tempFile, proc, timer, promise,
                   detection, args, result2>>

\* One of the five calls is answered, in any order.
SubcallSettle(k) ==
    /\ subcalls[k] = "pending"
    /\ \E answer \in {"fulfilled", "rejected"} :
          subcalls' = [subcalls EXCEPT ![k] = answer]
    /\ UNCHANGED <<tmpdir, calls, rev, env, pc, tempFile, proc, timer, promise,
                   detection, args, result, outcome, result2>>

\* The handler resumes with the five answers and scores them.
JoinResolve(D, R, T) ==
    /\ pc = "awaitVision"
    /\ Joined(subcalls)
    /\ ~JoinFailed(subcalls)
    /\ \E det \in D, rnd \in R, now \in T :
          /\ detection' = det
          /\ Deliver(VisionScore(rev, det, rnd, now))
    /\ UNCHANGED <<tmpdir, calls, subcalls, rev, env, tempFile, proc, timer,
                   promise, args, result2>>

\* The handler resumes in its catch block.
JoinReject ==
    /\ pc = "awaitVision"
    /\ JoinFailed(subcalls)
    /\ \E rnd \in RandomStreams, now \in Clock :
          Deliver(VisionCatch(rev, rnd, now))
    /\ detection' = [kind |-> "failed"]
    /\ UNCHANGED <<tmpdir, calls, subcalls, rev, env, tempFile, proc, timer,
                   promise, args, result2>>

-----------------------------------------------------------------------------
(* Spec: one request through one of the entry points.                     *)

Quiet ==
    /\ pc = "idle"
    /\ tempFile = FALSE
    /\ proc = "none"
    /\ timer = "unset"
    /\ promise = [state |-> "none", value |-> NoValue]
    /\ detection = NoValue
    /\ args = NoValue
    /\ result = NoValue
    /\ outcome = "pending"
    /\ result2 = NoValue
    /\ tmpdir = EmptyDir
    /\ calls = NoCalls
    /\ subcalls = NoSubcalls

Init ==
    /\ rev \in {"imageAnalysisService", "part_000", "imageRoutes"}
    /\ env \in [useCustomModel : BOOLEAN, visionClient : BOOLEAN]
    /\ rev # "part_000" => ~env.useCustomModel
    /\ rev = "imageRoutes" => ~env.visionClient
    /\ Quiet

Next ==
    \/ StartCustom
    \/ CustomResume
    \/ ProcessClose
    \/ ProcessError
    \/ Timeout
    \/ StartVision
    \/ VisionResolve(DetPool, RandomStreams, Clock)
    \/ VisionReject
    \/ RouteUpload

Spec == Init /\ [][Next]_vars

-----------------------------------------------------------------------------
(* SpecPair: two overlapping calls of callPhotographyModel.                *)

InitPair ==
    /\ rev = "part_000"
    /\ env \in [useCustomModel : {TRUE}, visionClient : BOOLEAN]
    /\ Quiet

NextPair ==
    \E i \in Requests :
        \/ PairStart(i)
        \/ PairRead(i)
        \/ PairClose(i)
        \/ PairError(i)
        \/ PairTimeout(i)

SpecPair == InitPair /\ [][NextPair]_vars

-----------------------------------------------------------------------------
(* SpecLive: Spec with the scheduling the runtime guarantees.  A handler   *)
(* that can run does run and an armed timer fires; nothing obliges the     *)
(* python process or the vision service to answer, so ProcessClose,        *)
(* ProcessError, VisionResolve and VisionReject carry no fairness.         *)

SpecLive ==
    /\ Spec
    /\ WF_vars(StartCustom)
    /\ WF_vars(CustomResume)
    /\ WF_vars(Timeout)
    /\ WF_vars(StartVision)
    /\ WF_vars(RouteUpload)

-----------------------------------------------------------------------------
(* SpecScore: the vision path on every well-formed detection within the    *)
(* bounds (client present, all five vision calls answered).                *)

OneStream == { [a |-> 0, b |-> 1] }

InitScore ==
    /\ rev \in {"imageAnalysisService", "part_000"}
    /\ env = [useCustomModel |-> FALSE, visionClient |-> TRUE]
    /\ Quiet

NextScore ==
    \/ StartVision
    \/ VisionResolve(DetInputs, OneStream, {"t1"})

SpecScore == InitScore /\ [][NextScore]_vars

-----------------------------------------------------------------------------
(* SpecJoin: one request on the vision path, sub-call by sub-call.         *)

NextJoin ==
    \/ JoinStart
    \/ \E k \in Subcalls : SubcallSettle(k)
    \/ JoinResolve(DetPool, OneStream, {"t1"})
    \/ JoinReject

SpecJoin == InitScore /\ [][NextJoin]_vars

-----------------------------------------------------------------------------
(* SpecTwin: the vision path run twice on the same detection, each run     *)
(* with its own clock reading and its own Math.random() draws.             *)

SecondRun ==
    /\ pc = "done"
    /\ detection.kind = "detection"
    /\ result2 = NoValue
    /\ \E rnd \in RandomStreams, now \in Clock :
          result2' = VisionScore(rev, detection, rnd, now).result
    /\ UNCHANGED <<tmpdir, calls, subcalls, rev, env, pc, tempFile, proc, timer, promise, detection,
                   args, result, outcome>>

NextTwin ==
    \/ StartVision
    \/ VisionResolve(DetPool, RandomStreams, Clock)
    \/ SecondRun

SpecTwin == InitScore /\ [][NextTwin]_vars

-----------------------------------------------------------------------------
(* SpecCompare: the vision path on one detection, then on another one.     *)

\* Answers that can be scored: those of DetPool, and the single centred
\* face accompanied by one or two objects of low confidence.
ComparePool ==
    { d \in DetPool : ~ScoringThrows(d) }
    \cup { Detection(<<CenteredFace>>, <<Obj(30)>>, <<>>, <<>>, <<>>),
           Detection(<<CenteredFace>>, <<Obj(30), Obj(30)>>, <<>>, <<>>, <<>>),
           Detection(<<CenteredFace, TopFace>>, <<>>, <<>>, <<>>, <<>>),
           Detection(<<>>, <<Obj(30)>>, <<>>, <<>>, <<>>) }

\* A second request, answered with the detection kept in args.
SecondRunOther ==
    /\ pc = "done"
    /\ detection.kind = "detection"
    /\ result2 = NoValue
    /\ \E det \in ComparePool, rnd \in OneStream, now \in {"t1"} :
          /\ args' = det
          /\ result2' = VisionScore(rev, det, rnd, now).result
    /\ UNCHANGED <<tmpdir, calls, subcalls, rev, env, pc, tempFile, proc, timer,
                   promise, detection, result, outcome>>

NextCompare ==
    \/ StartVision
    \/ VisionResolve(ComparePool, OneStream, {"t1"})
    \/ SecondRunOther

SpecCompare == InitScore /\ [][NextCompare]_vars

-----------------------------------------------------------------------------
(* SpecRec: generateRecommendations applied to arbitrary score tuples.     *)

ScorePool == {59, 60, 64, 65, 79, 80}

NaturalLandscapeLabel ==
    Label(<<"N", "a", "l", " ", "L", "A", "N", "D", "S", "C", "A", "P", "E", "s">>, 60)

RecArgs ==
    [ compositionScore : ScorePool, focusScore : ScorePool,
      exposureScore : ScorePool, colorScore : ScorePool,
      faces : { <<>>, <<CenteredFace>> },
      labels : { <<>>, <<SkyLabel>>, <<SkyLabel, LandscapeLabel>>,
                 <<NoDescriptionLabel, NaturalLandscapeLabel>> },
      objects : { <<>>, <<Obj(90), Obj(90), Obj(20)>>,
                  <<Obj(90), Obj(90), Obj(20), Obj(20)>> } ]

InitRec ==
    /\ rev \in {"imageAnalysisService", "part_000"}
    /\ env = [useCustomModel |-> FALSE, visionClient |-> TRUE]
    /\ pc = "applyRecommendations"
    /\ args \in RecArgs
    /\ tempFile = FALSE
    /\ proc = "none"
    /\ timer = "unset"
    /\ promise = [state |-> "none", value |-> NoValue]
    /\ detection = NoValue
    /\ result = NoValue
    /\ outcome = "pending"
    /\ result2 = NoValue
    /\ tmpdir = EmptyDir
    /\ calls = NoCalls
    /\ subcalls = NoSubcalls

ApplyRecommendations ==
    /\ pc = "applyRecommendations"
    /\ result' =
          [ recommendations |->
                generateRecommendations(rev, args.compositionScore, args.focusScore,
                                        args.exposureScore, args.colorScore,
                                        args.labels, args.faces, args.objects) ]
    /\ pc' = "done"
    /\ outcome' = "resolved"
    /\ UNCHANGED <<tmpdir, calls, subcalls, rev, env, tempFile, proc, timer, promise, detection, args, result2>>

NextRec == ApplyRecommendations

SpecRec == InitRec /\ [][NextRec]_vars

-----------------------------------------------------------------------------
(* SpecFocus: analyzeFocus applied to two object lists of the same length. *)

FocusLevels == {90, 50, 30, 10}

\* Four objects at confidences 0.9, 0.85, 0.88 and 0.91.
ScenarioObjects == <<Obj(90), Obj(85), Obj(88), Obj(91)>>

\* One object at confidence exactly 0.8.
BoundaryObjects == <<Obj(80)>>

FocusLists ==
    ObjectLists(FocusLevels, MaxObjects) \cup {ScenarioObjects, BoundaryObjects}

FocusPairs ==
    { p \in FocusLists \X FocusLists : Len(p[1]) = Len(p[2]) }

InitFocus ==
    /\ rev \in {"imageAnalysisService", "part_000"}
    /\ env = [useCustomModel |-> FALSE, visionClient |-> TRUE]
    /\ pc = "applyFocus"
    /\ \E p \in FocusPairs : args = [objectsA |-> p[1], objectsB |-> p[2]]
    /\ tempFile = FALSE
    /\ proc = "none"
    /\ timer = "unset"
    /\ promise = [state |-> "none", value |-> NoValue]
    /\ detection = NoValue
    /\ result = NoValue
    /\ outcome = "pending"
    /\ result2 = NoValue
    /\ tmpdir = EmptyDir
    /\ calls = NoCalls
    /\ subcalls = NoSubcalls

ApplyFocus ==
    /\ pc = "applyFocus"
    /\ result' = [ focusA |-> analyzeFocus(args.objectsA),
                   focusB |-> analyzeFocus(args.objectsB) ]
    /\ pc' = "done"
    /\ outcome' = "resolved"
    /\ UNCHANGED <<tmpdir, calls, subcalls, rev, env, tempFile, proc, timer, promise, detection, args, result2>>

NextFocus == ApplyFocus

SpecFocus == InitFocus /\ [][NextFocus]_vars

-----------------------------------------------------------------------------
(* Properties.                                                             *)

SubScoreFields == {"compositionScore", "focusScore", "exposureScore", "colorScore"}

ResultFields ==
    SubScoreFields \cup {"overallScore", "composition", "focus", "exposure",
                         "color", "recommendations", "analysisMethod"}

\* A fixed-point value that is a whole number.
IsWhole(v) == v % 10 = 0

\* A fixed-point value that is an integer within [0, 100].
InScoreBound(v) == IsWhole(v) /\ 0 <= v /\ v <= 1000

\* overall is the integer nearest to the mean of the four sub-scores of res
\* (ties upwards): overall - 1/2 <= mean < overall + 1/2.
IsRoundedMean(res) ==
    LET total == res.compositionScore + res.focusScore
                 + res.exposureScore + res.colorScore
    IN  /\ IsWhole(res.overallScore)
        /\ 4 * res.overallScore - 20 <= total
        /\ total < 4 * res.overallScore + 20

FromAnalysisService == rev \in {"imageAnalysisService", "part_000"}

Returned == pc = "done" /\ outcome = "resolved"

IsRealDetection(res) == res.analysisMethod \in {"REAL_AI", "GOOGLE_VISION"}

\* C1: every result of the vision path has four integer sub-scores within
\* [0,100] and an overall score that is the rounded mean of the four.
C1_VisionScoresBounded ==
    (Returned /\ IsRealDetection(result)) =>
        /\ \A f \in SubScoreFields : InScoreBound(result[f])
        /\ IsRoundedMean(result)

\* C1 witness: a detection with faces, objects, labels and colours has been
\* scored and the mean of its sub-scores is not a whole number.
C1_Witness ==
    /\ Returned
    /\ IsRealDetection(result)
    /\ Len(detection.faces) > 0 /\ Len(detection.objects) > 0
    /\ Len(detection.labels) > 0 /\ Len(detection.colors) > 0
    /\ (result.compositionScore + result.focusScore
        + result.exposureScore + result.colorScore) % 40 = 20

\* C2: analyzeImageWithAI never rejects, and whenever it has returned, the
\* result carries the four sub-scores, the overall score, the four descriptor
\* groups, the recommendations and the method tag.
C2_NeverRejectsComplete ==
    FromAnalysisService =>
        /\ outcome # "rejected"
        /\ pc = "done" => ResultFields \subseteq DOMAIN result

\* C2 witness: the custom model timed out, the vision backend then answered
\* with a face that has no vertices, and the request still returned.
C2_Witness ==
    /\ Returned
    /\ rev = "part_000" /\ env.useCustomModel
    /\ promise.state = "rejected"
    /\ promise.value.message = "Model execution timeout"
    /\ detection.kind = "detection"
    /\ FaceThrows(detection.faces)
    /\ ResultFields \subseteq DOMAIN result

\* C3 (as claimed): in every result of analyzeImageWithAI, whichever pipeline
\* produced it, overallScore is the rounded mean of the four sub-scores.
C3_OverallIsRoundedMean ==
    (Returned /\ FromAnalysisService) => IsRoundedMean(result)

\* C4 (as claimed): in every result of analyzeImageWithAI, whichever pipeline
\* produced it, each sub-score is an integer within [0,100].
C4_SubScoresBounded ==
    (Returned /\ FromAnalysisService) =>
        \A f \in SubScoreFields : InScoreBound(result[f])

\* C5 (as claimed): every analysis result, the upload route's inline mock
\* included, has between 1 and 3 recommendations.
C5_RecommendationCount ==
    Returned =>
        /\ Len(result.recommendations) >= 1
        /\ Len(result.recommendations) <= 3

\* Labels of the explored inputs whose description contains "landscape" in
\* some letter case.
LandscapeLabels == {LandscapeLabel, NaturalLandscapeLabel}

NoRuleFires(a) ==
    /\ a.compositionScore >= 65 /\ a.focusScore >= 65
    /\ a.exposureScore >= 65 /\ a.colorScore >= 65
    /\ Len(a.faces) = 0
    /\ ~(\E i \in 1..Len(a.labels) : a.labels[i] \in LandscapeLabels)
    /\ Len(a.objects) <= 3
    /\ ~(a.compositionScore >= 80 /\ a.focusScore >= 80)

\* C6: generateRecommendations returns exactly the default string when no
\* deficiency, subject or combination rule fires, and only then; the default
\* never shares a list with another recommendation.
C6_DefaultIffNoRule ==
    pc = "done" =>
        /\ (result.recommendations = <<RecDefault>>) <=> NoRuleFires(args)
        /\ (\E i \in 1..Len(result.recommendations) :
                result.recommendations[i] = RecDefault)
            => result.recommendations = <<RecDefault>>

\* C6 witness: no rule fired, for three objects and a label without
\* "landscape", and the default string was returned.
C6_Witness ==
    /\ pc = "done"
    /\ NoRuleFires(args)
    /\ Len(args.objects) = 3
    /\ Len(args.labels) > 0
    /\ args.compositionScore = 80
    /\ result.recommendations = <<RecDefault>>

EmptyDetection == Detection(<<>>, <<>>, <<>>, <<>>, <<>>)

\* C7: an answer of the vision backend in which every field is empty yields
\* a complete real-detection result with composition 0, focus 50, exposure 50
\* and color 30.
C7_EmptyDetectionBaselines ==
    (pc = "done" /\ detection = EmptyDetection) =>
        /\ outcome = "resolved"
        /\ ResultFields \subseteq DOMAIN result
        /\ IsRealDetection(result)
        /\ result.compositionScore = FromInt(0)
        /\ result.focusScore = FromInt(50)
        /\ result.exposureScore = FromInt(50)
        /\ result.colorScore = FromInt(30)

\* C7 witness: the vision backend answered with the empty detection and the
\* request returned.
C7_Witness == Returned /\ detection = EmptyDetection /\ IsRealDetection(result)

BothRunsReal ==
    /\ pc = "done"
    /\ result2 # NoValue
    /\ IsRealDetection(result)
    /\ IsRealDetection(result2)

\* C8 (as claimed): two runs of the vision path on the same detection agree
\* in every field of the returned result.
C8_RunsAgreeEverywhere == BothRunsReal => result = result2

TimeFields == {"analysisDate", "processingTime"}

\* C8 (amended): two runs of the vision path on the same detection agree in
\* every field of the returned result other than analysisDate and
\* processingTime.
C8_RunsAgreeButTime ==
    BothRunsReal =>
        /\ DOMAIN result = DOMAIN result2
        /\ \A f \in DOMAIN result \ TimeFields : result[f] = result2[f]

\* C8 witness: both runs returned for a detection with a face, objects,
\* labels and colours, with different clock readings and random draws.
C8_Witness ==
    /\ BothRunsReal
    /\ Len(detection.faces) > 0 /\ Len(detection.colors) > 0
    /\ result.analysisDate # result2.analysisDate
    /\ result.processingTime # result2.processingTime

\* Sum of the confidences of a list of objects, in hundredths.
ConfidenceTotal(objects) == SumSeq([i \in 1..Len(objects) |-> objects[i].score])

\* C9: for a fixed non-empty object count, a higher mean confidence never
\* gives a lower focus score.
C9_FocusMonotone ==
    (pc = "done"
     /\ Len(args.objectsA) > 0
     /\ Len(args.objectsA) = Len(args.objectsB)
     /\ ConfidenceTotal(args.objectsA) <= ConfidenceTotal(args.objectsB))
        => result.focusA <= result.focusB

\* C9 witness: four objects at mean confidence 0.3 against four objects at
\* mean confidence 0.9, the second scoring strictly higher.
C9_Witness ==
    /\ pc = "done"
    /\ Len(args.objectsA) = 4 /\ Len(args.objectsB) = 4
    /\ ConfidenceTotal(args.objectsA) = 4 * 30
    /\ ConfidenceTotal(args.objectsB) = 4 * 90
    /\ result.focusA < result.focusB

\* C10 (as claimed): whenever callPhotographyModel's promise has settled, the
\* temporary image file no longer exists.
C10_TempFileRemoved ==
    promise.state \in {"resolved", "rejected"} => tempFile = FALSE

\* C11 (as claimed): every analysis request eventually returns a result, even
\* if the python process and the vision service never answer.
C11_EveryRequestReturns == <>(pc = "done")

CustomEnabled == rev = "part_000" /\ env.useCustomModel

\* The custom-model call ended in the catch block of analyzeImageWithCustomAI.
CustomFailed ==
    \/ promise.state = "rejected"
    \/ promise.state = "resolved" /\ ModelResultThrows(promise.value)

\* The vision path ended in its catch block: no client, a rejected call, or
\* an exception while scoring the answer.
VisionFailed ==
    \/ ~env.visionClient
    \/ detection.kind = "failed"
    \/ detection.kind = "detection" /\ ScoringThrows(detection)

VisionSucceeded == detection.kind = "detection" /\ ~ScoringThrows(detection)

TimedOut ==
    /\ promise.state = "rejected"
    /\ promise.value.message = "Model execution timeout"

\* The whole sub-scores the fallback generator of revision r may draw:
\* 40..79 in part_000 and 0..99 in imageAnalysisService.js.
InFallbackRange(r, v) ==
    /\ IsWhole(v)
    /\ IF r = "imageAnalysisService"
       THEN 0 <= v /\ v <= 990
       ELSE 400 <= v /\ v <= 790

CannedList ==
    << "Consider experimenting with different angles for more dynamic composition",
       "Try adjusting exposure slightly to enhance detail in shadows",
       "Experiment with different focal points for improved visual interest" >>

IsCannedFallback(r, res) ==
    /\ res.analysisMethod = (IF r = "imageAnalysisService" THEN "MOCK" ELSE "FALLBACK")
    /\ \A f \in SubScoreFields : InFallbackRange(r, res[f])
    /\ res.recommendations = CannedList

\* C13 (as claimed): whenever the custom-model call timed out, the returned
\* result is the fallback one: fallback tag, sub-scores in the fallback
\* range, the canned three recommendations.
C13_TimeoutGivesFallback ==
    (Returned /\ CustomEnabled /\ TimedOut) => IsCannedFallback(rev, result)

\* C13 (amended): whenever the custom-model call timed out and the vision
\* path then failed or was unavailable, the returned result is the fallback
\* one.
C13_TimeoutThenVisionFailure ==
    (Returned /\ CustomEnabled /\ TimedOut /\ VisionFailed)
        => IsCannedFallback(rev, result)

\* C13 witness: the timer ended the custom-model call, the vision call was
\* rejected, and the fallback result was returned with a top-of-range score.
C13_Witness ==
    /\ Returned /\ CustomEnabled /\ TimedOut
    /\ env.visionClient
    /\ detection.kind = "failed"
    /\ IsCannedFallback(rev, result)
    /\ result.compositionScore = 790

\* The method tag revision r gives to a request made without a vision client.
NoBackendTag(r) ==
    VisionEntry(r, [useCustomModel |-> FALSE, visionClient |-> FALSE],
                [a |-> 0, b |-> 0], "t1").result.analysisMethod

\* C14 (as claimed): a result produced because a call of the configured
\* vision client failed carries another method tag than a result produced
\* because no client is configured.
C14_FailureModesDistinct ==
    (Returned /\ FromAnalysisService /\ env.visionClient /\ detection.kind = "failed")
        => result.analysisMethod # NoBackendTag(rev)

\* The request ended in generateFallbackAnalysis: the vision path failed, and
\* so did the custom-model call where it is enabled.
FromFallbackGenerator ==
    /\ Returned /\ FromAnalysisService
    /\ VisionFailed
    /\ CustomEnabled => CustomFailed

\* C15: every result of generateFallbackAnalysis has the fallback tag, four
\* whole sub-scores inside the revision's range, an overall score that is
\* their rounded mean, and exactly the three canned recommendations.
C15_FallbackShape ==
    FromFallbackGenerator =>
        /\ IsCannedFallback(rev, result)
        /\ IsRoundedMean(result)
        /\ Len(result.recommendations) = 3

\* C15 witness: a fallback result of imageAnalysisService.js whose four draws
\* differ and touch both ends of the range 0..99.
C15_Witness ==
    /\ FromFallbackGenerator
    /\ rev = "imageAnalysisService"
    /\ result.compositionScore = 990
    /\ result.focusScore = 0
    /\ result.exposureScore # result.colorScore
    /\ result.recommendations = CannedList

\* The detection holds one face whose bounding-box centre is the normalized
\* point (0.5, 0.5), and nothing else.
OnlyOneCenteredFace(det) ==
    /\ det.kind = "detection"
    /\ Len(det.faces) = 1
    /\ Len(det.faces[1].vertices) = 4
    /\ det.faces[1].vertices[1].x + det.faces[1].vertices[3].x = 100
    /\ det.faces[1].vertices[1].y + det.faces[1].vertices[3].y = 100
    /\ det.objects = <<>> /\ det.labels = <<>>
    /\ det.colors = <<>> /\ det.logos = <<>>

\* C16: a detection whose only content is one face centred at (0.5, 0.5)
\* scores composition 70 (40 + 15 + 15), focus 50, exposure 50 and color 30.
C16_CenteredFaceScores ==
    (pc = "done" /\ OnlyOneCenteredFace(detection)) =>
        /\ Returned
        /\ IsRealDetection(result)
        /\ result.compositionScore = FromInt(70)
        /\ result.focusScore = FromInt(50)
        /\ result.exposureScore = FromInt(50)
        /\ result.colorScore = FromInt(30)

\* C16 witness: the vision path of part_000 returned a GOOGLE_VISION result
\* with composition 70 for the single centred face.
C16_Witness ==
    /\ Returned
    /\ rev = "part_000"
    /\ OnlyOneCenteredFace(detection)
    /\ result.compositionScore = FromInt(70)
    /\ result.analysisMethod = "GOOGLE_VISION"

\* C17: more than three objects whose mean confidence exceeds 0.8 give the
\* focus score 100 (base 40, top tier 40, multi-object bonus 20).
C17_TopFocus ==
    (pc = "done"
     /\ Len(args.objectsA) > 3
     /\ ConfidenceTotal(args.objectsA) > 80 * Len(args.objectsA))
        => result.focusA = 100

\* C17 witness: the four objects at 0.9, 0.85, 0.88 and 0.91 scored 100.
C17_Witness ==
    /\ pc = "done"
    /\ args.objectsA = ScenarioObjects
    /\ result.focusA = 100

\* Dominant colours (120,130,125) at coverage 0.5 and (40,200,60) at 0.3.
ScenarioColors == <<Color(120, 130, 125, 50), Color(40, 200, 60, 30)>>

\* C18: for the dominant colours (120,130,125, 0.5) and (40,200,60, 0.3) the
\* exposure score is 85 (30 + best brightness band 50 + two-colour bonus 5)
\* and the color score is 70 (30 + two-colour bonus 15 + balanced dominance
\* 20 + contrast bonus 5 for |375 - 300| / 3 = 25).
C18_ScenarioColorScores ==
    (Returned /\ IsRealDetection(result) /\ detection.colors = ScenarioColors) =>
        /\ result.exposureScore = FromInt(85)
        /\ result.colorScore = FromInt(70)

\* C18 witness: the two colours were scored on their own, without faces,
\* objects or labels.
C18_Witness ==
    /\ Returned /\ IsRealDetection(result)
    /\ detection.colors = ScenarioColors
    /\ detection.faces = <<>> /\ detection.objects = <<>> /\ detection.labels = <<>>
    /\ result.exposureScore = FromInt(85)
    /\ result.colorScore = FromInt(70)

\* C19 (as claimed): whatever detection data a successful vision response
\* holds, entries with missing fields included, the request returns a result
\* tagged as real detection with four bounded sub-scores.
C19_MalformedStillReal ==
    (pc = "done" /\ detection.kind = "detection") =>
        /\ Returned
        /\ IsRealDetection(result)
        /\ \A f \in SubScoreFields : InScoreBound(result[f])

\* C20 (as claimed): of two overlapping calls, each has its own temporary
\* file, the file a running process has yet to read is still there with its
\* own request's image, and a resolved call carries the model's output for
\* its own image.
C20_RequestsIndependent ==
    \A i \in Requests :
        /\ \A j \in Requests \ {i} :
              (calls[i].proc = "running" /\ calls[j].proc = "running")
                  => calls[i].path # calls[j].path
        /\ (calls[i].proc = "running" /\ calls[i].seen = "unread")
              => tmpdir[calls[i].path] = Image(i)
        /\ calls[i].promise.state = "resolved"
              => calls[i].promise.value = ModelOutputOf(Image(i))

\* Two calls whose generated file names differ do stay independent.
PairIndependentWhenNamesDiffer ==
    (calls[1].path # calls[2].path) => C20_RequestsIndependent

\* C21: once the timer of callPhotographyModel has fired, the process is no
\* longer running and the promise is settled; a call that was ended by the
\* timer is continued with the vision path, so the request never returns a
\* CUSTOM_AI result for it.
C21_TimeoutIsBackendFailure ==
    /\ timer = "fired" =>
          /\ proc # "running"
          /\ promise.state \in {"resolved", "rejected"}
    /\ proc = "killed" => TimedOut
    /\ (pc = "done" /\ CustomEnabled /\ TimedOut) =>
          /\ Returned
          /\ result.analysisMethod \in {"GOOGLE_VISION", "FALLBACK"}

\* C21 witness: the timer fired while the process was running, the process
\* was killed, and the request returned the vision backend's result.
C21_Witness ==
    /\ Returned /\ CustomEnabled /\ TimedOut
    /\ timer = "fired"
    /\ proc = "killed"
    /\ result.analysisMethod = "GOOGLE_VISION"

\* C22: nothing is scored while the request waits for its sub-calls, a
\* real-detection result is returned only when all five sub-calls have
\* fulfilled, and a request with a rejected sub-call is answered by the
\* fallback generator.
C22_JoinedBeforeScoring ==
    /\ pc = "awaitVision" => result = NoValue
    /\ (pc = "done" /\ IsRealDetection(result)) =>
          \A k \in Subcalls : subcalls[k] = "fulfilled"
    /\ (pc = "done" /\ JoinFailed(subcalls)) =>
          /\ Returned
          /\ result.analysisMethod = FallbackTag(rev)

\* C22 witness: four sub-calls fulfilled, logoDetection rejected, and the
\* request was answered by the fallback generator.
C22_Witness ==
    /\ Returned
    /\ subcalls["logoDetection"] = "rejected"
    /\ \A k \in Subcalls \ {"logoDetection"} : subcalls[k] = "fulfilled"
    /\ result.analysisMethod = FallbackTag(rev)

\* The rules in their evaluation order, with the string each one adds.
RuleStrings ==
    << RecComposition, RecFocus, RecExposure, RecColor, RecPortrait, RecLandscape,
       RecSimplify, RecCreative, RecRaw >>

DeficiencyStrings == {RecComposition, RecFocus, RecExposure, RecColor}

\* Positions in RuleStrings of the rules that fire for the arguments a in
\* revision r.
FiredRules(r, a) ==
    { i \in 1..Len(RuleStrings) :
        \/ i = 1 /\ a.compositionScore < 65
        \/ i = 2 /\ a.focusScore < 65
        \/ i = 3 /\ a.exposureScore < 65
        \/ i = 4 /\ a.colorScore < 65
        \/ i = 5 /\ Len(a.faces) > 0
        \/ i = 6 /\ \E k \in 1..Len(a.labels) : a.labels[k] \in LandscapeLabels
        \/ i = 7 /\ Len(a.objects) > 3
        \/ i = 8 /\ a.compositionScore >= 80 /\ a.focusScore >= 80
        \/ i = 9 /\ r = "imageAnalysisService"
                 /\ a.exposureScore < 60 /\ a.colorScore < 60 }

\* The k-th fired rule in evaluation order.
NthFired(F, k) == CHOOSE i \in F : Cardinality({ j \in F : j < i }) = k - 1

\* list is the first min(3, n) strings of the n fired rules F, in order.
IsFirstThreeOf(list, F) ==
    /\ Len(list) = Min(3, Cardinality(F))
    /\ \A k \in 1..Len(list) : list[k] = RuleStrings[NthFired(F, k)]

NoDuplicates(list) ==
    \A i, j \in 1..Len(list) : i # j => list[i] # list[j]

DeficienciesFirst(list) ==
    \A i, j \in 1..Len(list) :
        (i < j /\ list[j] \in DeficiencyStrings) => list[i] \in DeficiencyStrings

\* C23 (as claimed): the returned list is exactly the first min(3, n)
\* strings of the n fired rules in evaluation order, without duplicates and
\* with no deficiency string after another kind of string.
C23_FirstThreeFired ==
    pc = "done" =>
        /\ IsFirstThreeOf(result.recommendations, FiredRules(rev, args))
        /\ NoDuplicates(result.recommendations)
        /\ DeficienciesFirst(result.recommendations)

\* C23 (amended): when at least one rule fires the returned list is exactly
\* the first min(3, n) strings of the n fired rules in evaluation order;
\* when none fires it is the default string alone; it never holds a
\* duplicate, nor a deficiency string after another kind of string.
C23_FirstThreeFiredOrDefault ==
    pc = "done" =>
        /\ IF FiredRules(rev, args) = {}
           THEN result.recommendations = <<RecDefault>>
           ELSE IsFirstThreeOf(result.recommendations, FiredRules(rev, args))
        /\ NoDuplicates(result.recommendations)
        /\ DeficienciesFirst(result.recommendations)

\* C23 witness: five or more rules fired, among them two deficiency rules,
\* the portrait rule and the simplify rule; the list stops at the portrait
\* tip.
C23_Witness ==
    /\ pc = "done"
    /\ Cardinality(FiredRules(rev, args)) >= 5
    /\ {1, 2, 5, 7} \subseteq FiredRules(rev, args)
    /\ result.recommendations = <<RecComposition, RecFocus, RecPortrait>>

DescriptorGroups == {"composition", "focus", "exposure", "color"}

\* C24 (as claimed): two detections scored by the vision path with the same
\* four sub-scores get the same four descriptor groups.
C24_DescriptorsFromScores ==
    (BothRunsReal /\ \A f \in SubScoreFields : result[f] = result2[f])
        => \A g \in DescriptorGroups : result[g] = result2[g]

\* C25 (as claimed): every non-empty object list whose mean confidence is at
\* least 0.8, exactly 0.8 included, gets the largest tier bonus: base 40 plus
\* 40, plus 20 for more than three objects.
C25_TopBandFromEightTenths ==
    (pc = "done"
     /\ Len(args.objectsA) > 0
     /\ ConfidenceTotal(args.objectsA) >= 80 * Len(args.objectsA))
        => result.focusA = 80 + (IF Len(args.objectsA) > 3 THEN 20 ELSE 0)

\* C26: whenever a face is present, the composition score is the score of
\* the first face alone with the same labels: the other faces and the
\* objects do not enter it.
C26_FirstFaceOnly ==
    (Returned /\ IsRealDetection(result) /\ Len(detection.faces) > 0) =>
        result.compositionScore =
            FromInt(analyzeComposition(<<detection.faces[1]>>, <<>>, detection.labels))

\* C26 witness: a centred first face, a second face elsewhere and at least
\* two objects, no labels: composition 70, as for the first face alone.
C26_Witness ==
    /\ Returned /\ IsRealDetection(result)
    /\ detection.faces = <<CenteredFace, PixelFace>>
    /\ Len(detection.objects) >= 2
    /\ detection.labels = <<>>
    /\ result.compositionScore = FromInt(70)

\* C27 (as claimed): for each scoring function, the score for a non-empty
\* input is never below the score for the empty input.
C27_NoDataIsLowest ==
    (Returned /\ IsRealDetection(result)) =>
        /\ Len(detection.objects) > 0 =>
              result.focusScore >= FromInt(analyzeFocus(<<>>))
        /\ Len(detection.colors) > 0 =>
              /\ result.exposureScore >= FromInt(analyzeExposure(<<>>))
              /\ result.colorScore >= FromInt(analyzeColor(<<>>))
        /\ (Len(detection.faces) > 0 \/ Len(detection.objects) > 0
            \/ Len(detection.labels) > 0) =>
              result.compositionScore >= FromInt(analyzeComposition(<<>>, <<>>, <<>>))

\* The returned result was made without any real signal: by
\* generateFallbackAnalysis or by the inline mock of the upload route.
IsFallbackOrMock ==
    \/ FromFallbackGenerator
    \/ Returned /\ rev = "imageRoutes"

\* C28 (as claimed): in every fallback or mock result, of every revision,
\* each categorical descriptor holds a string of its vocabulary; none is
\* undefined.
C28_DescriptorsDefined ==
    IsFallbackOrMock =>
        \A g \in DescriptorGroups :
            \A f \in DOMAIN result[g] : result[g][f] # "undefined"

\* The value a scoring function returned is the sum it had accumulated, and
\* that sum lies in [0,100].
Unclamped(sum, returned) ==
    /\ 0 <= sum /\ sum <= 100
    /\ returned = FromInt(sum)

\* C29: in every result of the vision path the accumulated bonus sum of each
\* of the four scoring functions already lies in [0,100], so the final clamp
\* returns it unchanged.
C29_ClampChangesNothing ==
    (Returned /\ IsRealDetection(result)) =>
        /\ Unclamped(analyzeComposition_score(detection.faces, detection.objects,
                                              detection.labels),
                     result.compositionScore)
        /\ Unclamped(analyzeFocus_score(detection.objects), result.focusScore)
        /\ Unclamped(analyzeExposure_score(detection.colors), result.exposureScore)
        /\ Unclamped(analyzeColor_score(detection.colors), result.colorScore)

\* C29 witness: one detection for which each of the four sums is exactly 100.
C29_Witness ==
    /\ Returned /\ IsRealDetection(result)
    /\ analyzeComposition_score(detection.faces, detection.objects,
                                detection.labels) = 100
    /\ analyzeFocus_score(detection.objects) = 100
    /\ analyzeExposure_score(detection.colors) = 100
    /\ analyzeColor_score(detection.colors) = 100
    /\ \A f \in SubScoreFields : result[f] = FromInt(100)

IsSettled(p) == p.state \in {"resolved", "rejected"}

\* C30: the promise of callPhotographyModel settles once, with the outcome
\* of the first of the close event, the error event and the timeout; no
\* later event changes the settled outcome.
C30_SettlesOnce ==
    [][ /\ IsSettled(promise) => promise' = promise
        /\ (promise = Pending /\ timer = "armed" /\ timer' = "fired") =>
              promise' = ModelError("Model execution timeout")
        /\ (promise = Pending /\ proc = "running" /\ proc' = "errored") =>
              promise' = ModelError("spawn error")
        /\ (promise = Pending /\ proc # "closed" /\ proc' = "closed") =>
              \E exit \in ExitOutcomes : promise' = CloseSettlement(exit)
      ]_vars

\* C30 witness: the call resolved with model output at the close event, and
\* the never-cancelled timer fired afterwards.
C30_Witness ==
    /\ promise.state = "resolved"
    /\ proc = "closed"
    /\ timer = "fired"

====
